---- MODULE Spec2Model ----
(***************************************************************************)
(* Model of bitnami/node-docker-utils (src/index.js): the argument         *)
(* builders (_getBinds, _parseRunOptions, _parseRunCommandArguments), the  *)
(* container helpers (getContainerId, _removeContainer) and the lifecycle  *)
(* of one runInContainerAsync call (SIGINT handler, onExit, wait, timeout  *)
(* catch) running against a container runtime and a Process Driver that    *)
(* are the environment.                                                    *)
(***************************************************************************)
EXTENDS Integers, Sequences, FiniteSets, TLC

VARIABLES
  pc,            \* position of the call: idle, waiting, returned, thrown, exited, crashed
  error,         \* the failure that reached the caller: none, timeout, lookup, removal, mapping
  call,          \* the arguments of the call being made
  sigintHandler, \* TRUE once process.on('SIGINT', ...) has registered the handler
  sigints,       \* number of interrupt signals delivered so far
  proc,          \* the `docker run` subprocess: none, starting, attached, exited
  exitDelivered, \* TRUE once the Process Driver has reported the exit (onExit ran)
  containers,    \* names of the containers the runtime currently holds
  trace,         \* what the controller did, in order
  rmFailed,      \* number of remove commands the runtime has failed
  cmdLine,       \* the argument string handed to the docker binary
  parsed         \* result of a direct _parseRunOptions application

vars == <<pc, error, call, sigintHandler, sigints, proc, exitDelivered,
          containers, trace, rmFailed, cmdLine, parsed>>

----------------------------------------------------------------------------
(* Bounds of the model.                                                    *)

MaxSigint == 2      \* interrupt signals delivered to the host process
MaxOptions == 2     \* entries of a caller's runOptions map
MaxMappings == 2    \* entries of a caller's mappings map

----------------------------------------------------------------------------
(* JavaScript values. A string is kept as the sequence of the pieces it    *)
(* was concatenated from, so that `--${key}` and `${host}:${path}` are     *)
(* built the way the template literals build them.                         *)

Str(pieces) == [t |-> "str", s |-> pieces]
True == [t |-> "bool", s |-> <<"true">>]
False == [t |-> "bool", s |-> <<"false">>]
JsNull == [t |-> "null", s |-> <<"null">>]
Undefined == [t |-> "undef", s |-> <<"undefined">>]
Num42 == [t |-> "num", s |-> <<"42">>]

\* An object literal is an ordered list of key/value entries.
Entry(k, v) == [key |-> k, value |-> v]

HasKey(object, k) == \E i \in DOMAIN object : object[i].key = k

Get(object, k) ==
  IF HasKey(object, k)
    THEN object[CHOOSE i \in DOMAIN object : object[i].key = k].value
    ELSE Undefined

\* String(value) as a template literal or Array.prototype.join renders it.
Template(value) == value.s

\* Array.prototype.join renders null and undefined elements as ''.
JoinPiece(value) == IF value.t \in {"null", "undef"} THEN <<>> ELSE value.s

RECURSIVE join(_)
join(array) ==
  IF array = <<>> THEN <<>>
  ELSE IF Len(array) = 1 THEN JoinPiece(array[1])
  ELSE JoinPiece(array[1]) \o <<" ">> \o join(Tail(array))

\* _.opts(options, defaults): the caller's entries keep their place, an
\* undefined entry takes the default's value, a missing key is appended.
RECURSIVE _opts(_, _)
_opts(options, defaults) ==
  IF defaults = <<>> THEN options
  ELSE LET d == Head(defaults)
           filled ==
             IF HasKey(options, d.key)
               THEN [i \in DOMAIN options |->
                       IF options[i].key = d.key /\ options[i].value = Undefined
                         THEN d ELSE options[i]]
               ELSE Append(options, d)
       IN  _opts(filled, Tail(defaults))

----------------------------------------------------------------------------
(* Argument builders.                                                      *)

\* A mapping value is a string, an object {path, mode} or anything else.
MapStr(p) == [t |-> "str", path |-> p, mode |-> ""]
MapObj(p, m) == [t |-> "obj", path |-> p, mode |-> m]
MapNum == [t |-> "num", path |-> "42", mode |-> ""]

\* One iteration of the _.each of _getBinds; mode '' stands for a mode that
\* is null, undefined or empty, all of which `if (mode)` skips.
bindSpec(hostPath, containerPath) ==
  IF containerPath.mode # ""
    THEN Str(<<hostPath, ":", containerPath.path, ":", containerPath.mode>>)
    ELSE Str(<<hostPath, ":", containerPath.path>>)

RECURSIVE _getBinds(_)
_getBinds(mappings) ==
  IF mappings = <<>> THEN [threw |-> FALSE, result |-> <<>>]
  ELSE LET hostPath == Head(mappings).key
           containerPath == Head(mappings).value
           rest == _getBinds(Tail(mappings))
       IN  IF containerPath.t \notin {"str", "obj"}
             THEN [threw |-> TRUE, result |-> <<>>]
             ELSE [threw |-> rest.threw,
                   result |-> <<Str(<<"-v">>), bindSpec(hostPath, containerPath)>>
                                \o rest.result]

RECURSIVE _parseRunOptions(_)
_parseRunOptions(runOptions) ==
  IF runOptions = <<>> THEN <<>>
  ELSE LET key == Head(runOptions).key
           value == Head(runOptions).value
           flag == IF value # False THEN <<Str(<<"--", key>>)>> ELSE <<>>
           val == IF value # JsNull /\ value # Undefined /\ value # True
                    THEN <<value>> ELSE <<>>
       IN  flag \o val \o _parseRunOptions(Tail(runOptions))

\* The mutation: option flags before the volume binds, as shell() orders them.
_parseRunCommandArguments_OptionsFirst(id, cmd, runOptions, mappings) ==
  LET parsedRunOptions ==
        _parseRunOptions(_opts(runOptions, <<Entry("interactive", JsNull)>>))
      binds == _getBinds(mappings)
  IN  [threw |-> binds.threw,
       result |-> <<Str(<<"run">>)>> \o parsedRunOptions \o binds.result
                    \o <<id>> \o cmd]

\* cmd is the list of tokens concat() appends: one for a string command,
\* the elements for an array command.
_parseRunCommandArguments(id, cmd, runOptions, mappings) ==
  LET parsedRunOptions ==
        _parseRunOptions(_opts(runOptions, <<Entry("interactive", JsNull)>>))
      binds == _getBinds(mappings)
  IN  [threw |-> binds.threw,
       result |-> <<Str(<<"run">>)>> \o binds.result \o parsedRunOptions
                    \o <<id>> \o cmd]

----------------------------------------------------------------------------
(* Inputs.                                                                 *)

ImageId == Str(<<"test-image">>)
GivenName == "docker-utils-test"
GeneratedName == "1478044800"   \* strftime('%s') at the time of the call

OptionKeys == {"name", "privileged", "interactive"}
OptionValues == {True, False, JsNull, Undefined, Str(<<GivenName>>)}
HostPaths == {"/tmp/test", "/tmp/read"}
MappingValues == {MapStr("/c"), MapObj("/c", "rw"), MapObj("/c", ""), MapNum}
Commands == {<<Str(<<"true">>)>>, <<Str(<<"find">>), Str(<<"/">>)>>}

DistinctKeys(object) ==
  \A i, j \in DOMAIN object : object[i].key = object[j].key => i = j

ObjectsOver(keys, values, maxLen) ==
  UNION {{o \in [1..n -> {Entry(k, v) : k \in keys, v \in values}] : DistinctKeys(o)}
           : n \in 0..maxLen}

RunOptionMaps == ObjectsOver(OptionKeys, OptionValues, MaxOptions)
MappingMaps == ObjectsOver(HostPaths, MappingValues, MaxMappings)

NoCall == [fn |-> "none", cmd |-> <<>>, callback |-> FALSE, exitOnEnd |-> Undefined,
           runOptions |-> <<>>, mappings |-> <<>>]

Init ==
  /\ pc = "idle"
  /\ error = "none"
  /\ call = NoCall
  /\ sigintHandler = FALSE
  /\ sigints = 0
  /\ proc = "none"
  /\ exitDelivered = FALSE
  /\ containers = {}
  /\ trace = <<>>
  /\ rmFailed = 0
  /\ cmdLine = <<>>
  /\ parsed = <<>>

lifecycleVars == <<sigintHandler, sigints, proc, exitDelivered, containers, trace,
                   rmFailed>>

\* A direct application of _parseRunOptions (as shell() makes at line 97).
ParseRunOptions(runOptions) ==
  /\ pc = "idle"
  /\ pc' = "returned"
  /\ call' = [NoCall EXCEPT !.fn = "_parseRunOptions", !.runOptions = runOptions]
  /\ parsed' = _parseRunOptions(runOptions)
  /\ UNCHANGED <<error, cmdLine, lifecycleVars>>

\* runInContainer(id, cmd, {runOptions, mappings}); exec() is taken to succeed.
runInContainer(cmd, runOptions, mappings) ==
  LET _cmd == _parseRunCommandArguments(ImageId, cmd, runOptions, mappings)
  IN  /\ pc = "idle"
      /\ call' = [NoCall EXCEPT !.fn = "runInContainer", !.cmd = cmd,
                                !.runOptions = runOptions, !.mappings = mappings]
      /\ IF _cmd.threw
           THEN pc' = "thrown" /\ error' = "mapping" /\ cmdLine' = cmdLine
           ELSE pc' = "returned" /\ error' = error /\ cmdLine' = join(_cmd.result)
      /\ UNCHANGED <<parsed, lifecycleVars>>

----------------------------------------------------------------------------
(* The container runtime and the two helpers that talk to it.              *)

\* options.runOptions after the defaulting of lines 174-176, and its name.
asyncRunOptions(runOptions) == _opts(runOptions, <<Entry("name", Str(<<GeneratedName>>))>>)
name == Template(Get(asyncRunOptions(call.runOptions), "name"))

\* The identifier the runtime assigns to the container of a given name.
IdOf(containerName) ==
  IF containerName = <<GivenName>> THEN "92b09381df3f" ELSE "a8de57517228"

\* Output of `docker ps -aq --filter "name=..."`: one line per match.
psOutput(filter) == IF filter \in containers THEN <<IdOf(filter), "\n">> ELSE <<>>

\* String.prototype.replace('\n', ''): removes the first newline only.
RECURSIVE replaceNewline(_)
replaceNewline(s) ==
  IF s = <<>> THEN <<>>
  ELSE IF Head(s) = "\n" THEN Tail(s)
  ELSE <<Head(s)>> \o replaceNewline(Tail(s))

getContainerId(containerName) ==
  LET res == replaceNewline(psOutput(containerName))
  IN  IF res # <<>> THEN Str(res) ELSE JsNull

\* What `docker rm <arg>` leaves behind when it succeeds.
dockerRm(arg) == {c \in containers : <<IdOf(c)>> # arg /\ c # arg}

Ev(e, a) == [ev |-> e, path |-> "", arg |-> a]
Tag(events, p) == [i \in DOMAIN events |-> [events[i] EXCEPT !.path = p]]
Threw(events) == events # <<>> /\ events[Len(events)].ev = "throw"

rmCommand(containerId, options) ==
  <<"rm", " ", IF options.force THEN "-f" ELSE "", " ">> \o Template(containerId)

\* The mutation: the try/catch around exec is missing.
_removeContainer_NoCatch(containerId, callback, options, execOk) ==
  <<Ev("exec", rmCommand(containerId, options))>>
  \o (IF execOk THEN <<Ev("logger.debug", <<>>)>> \o
                     (IF callback THEN <<Ev("callback()", <<>>)>> ELSE <<>>)
                ELSE <<Ev("throw", <<"rm">>)>>)

\* The mutation: the force option is not honoured.
_removeContainer_NoForce(containerId, callback, options, execOk) ==
  <<Ev("exec", rmCommand(containerId, [force |-> FALSE]))>>
  \o (IF execOk THEN <<Ev("logger.debug", <<>>)>> ELSE <<Ev("logger.error", <<>>)>>)
  \o (IF callback THEN <<Ev("callback()", <<>>)>> ELSE <<>>)

\* callback: whether a continuation was passed; execOk: whether the docker
\* binary exits with 0 (exec throws otherwise).
_removeContainer(containerId, callback, options, execOk) ==
  <<Ev("exec", rmCommand(containerId, options))>>
  \o (IF execOk THEN <<Ev("logger.debug", <<>>)>> ELSE <<Ev("logger.error", <<>>)>>)
  \o (IF callback THEN <<Ev("callback()", <<>>)>> ELSE <<>>)

----------------------------------------------------------------------------
(* runInContainerAsync.                                                    *)

\* The mutation: exitOnEnd defaults to true, as the JSDoc of line 159 has it.
exitOnEndOption_DefaultTrue(exitOnEnd) ==
  (IF exitOnEnd = Undefined THEN True ELSE exitOnEnd) = True

\* options.exitOnEnd after the defaults of lines 170-173, as line 196 tests
\* it; exitOnEnd is the caller's value, Undefined when the caller gave none.
exitOnEndOption(exitOnEnd) ==
  (IF exitOnEnd = Undefined THEN False ELSE exitOnEnd) = True

\* The mutation: the callback is skipped when no container was found.
onExit_SkipCallback(res, psOk, rmOk) ==
  IF ~psOk THEN <<Ev("lookup", <<>>), Ev("throw", <<"ps">>)>>
  ELSE LET containerId == getContainerId(name)
           rm == _removeContainer(containerId, TRUE, [force |-> TRUE], rmOk)
       IN  <<Ev("lookup", Template(containerId))>>
           \o (IF call.callback /\ containerId # JsNull
                 THEN <<Ev("onComplete", Template(containerId) \o res)>> ELSE <<>>)
           \o rm
           \o (IF ~Threw(rm) /\ exitOnEndOption(call.exitOnEnd)
                 THEN <<Ev("process.exit", <<>>)>> ELSE <<>>)

\* The events of one run of onExit. psOk and rmOk: whether the docker binary
\* exits with 0 for the ps and for the rm.
onExit(res, psOk, rmOk) ==
  IF ~psOk THEN <<Ev("lookup", <<>>), Ev("throw", <<"ps">>)>>
  ELSE LET containerId == getContainerId(name)
           rm == _removeContainer(containerId, TRUE, [force |-> TRUE], rmOk)
       IN  <<Ev("lookup", Template(containerId))>>
           \o (IF call.callback
                 THEN <<Ev("onComplete", Template(containerId) \o res)>> ELSE <<>>)
           \o rm
           \o (IF ~Threw(rm) /\ exitOnEndOption(call.exitOnEnd)
                 THEN <<Ev("process.exit", <<>>)>> ELSE <<>>)

\* onExit run from the event loop; an exception that leaves it is uncaught.
RunOnExit(path, res) ==
  \E psOk, rmOk \in BOOLEAN :
    LET events == onExit(res, psOk, rmOk)
    IN  /\ trace' = trace \o Tag(events, path)
        /\ containers' = IF psOk /\ rmOk THEN dockerRm(Template(getContainerId(name)))
                                        ELSE containers
        /\ rmFailed' = IF psOk /\ ~rmOk THEN rmFailed + 1 ELSE rmFailed
        /\ pc' = IF Threw(events) THEN "crashed"
                 ELSE IF events[Len(events)].ev = "process.exit" THEN "exited"
                 ELSE pc

\* Lines 169-203: defaults, SIGINT registration, argument list, launch.
runInContainerAsync(cmd, callback, exitOnEnd, runOptions, mappings) ==
  LET _cmd == _parseRunCommandArguments(ImageId, cmd, asyncRunOptions(runOptions), mappings)
  IN  /\ pc = "idle"
      /\ call' = [fn |-> "runInContainerAsync", cmd |-> cmd, callback |-> callback,
                  exitOnEnd |-> exitOnEnd, runOptions |-> runOptions,
                  mappings |-> mappings]
      /\ sigintHandler' = TRUE
      /\ IF _cmd.threw
           THEN pc' = "thrown" /\ error' = "mapping" /\ proc' = proc /\ cmdLine' = cmdLine
           ELSE pc' = "waiting" /\ error' = error /\ proc' = "starting"
                /\ cmdLine' = join(_cmd.result)
      /\ UNCHANGED <<sigints, exitDelivered, containers, trace, rmFailed, parsed>>

EventLoopRuns == pc \in {"waiting", "returned", "thrown"}

\* The runtime creates the named container for the launched `docker run`.
ContainerCreated ==
  /\ proc = "starting"
  /\ proc' = "attached"
  /\ containers' = containers \cup {name}
  /\ UNCHANGED <<pc, error, call, sigintHandler, sigints, exitDelivered, trace,
                 rmFailed, cmdLine, parsed>>

\* The subprocess ends; its container, if created, stays until removed.
ProcExit ==
  /\ proc \in {"starting", "attached"}
  /\ proc' = "exited"
  /\ UNCHANGED <<pc, error, call, sigintHandler, sigints, exitDelivered, containers,
                 trace, rmFailed, cmdLine, parsed>>

\* The Process Driver reports the exit: onExit(res) runs (line 203).
DeliverExit ==
  /\ EventLoopRuns
  /\ proc = "exited"
  /\ ~exitDelivered
  /\ exitDelivered' = TRUE
  /\ RunOnExit("exit", <<"exitCode">>)
  /\ UNCHANGED <<error, call, sigintHandler, sigints, proc, cmdLine, parsed>>

\* Lines 199-201: the registered handler runs onExit({exitCode: 127}).
Sigint ==
  /\ EventLoopRuns
  /\ sigintHandler
  /\ sigints < MaxSigint
  /\ sigints' = sigints + 1
  /\ RunOnExit("sigint", <<"127">>)
  /\ UNCHANGED <<error, call, sigintHandler, proc, exitDelivered, cmdLine, parsed>>

\* Line 205: wait() returns once the exit has been reported.
WaitReturn ==
  /\ pc = "waiting"
  /\ exitDelivered
  /\ pc' = "returned"
  /\ UNCHANGED <<error, call, sigintHandler, sigints, proc, exitDelivered, containers,
                 trace, rmFailed, cmdLine, parsed>>

\* Lines 205-210: wait() throws on timeout; the catch block looks the
\* container up, removes it and rethrows.
WaitTimeout ==
  /\ pc = "waiting"
  /\ ~exitDelivered
  /\ \E psOk, rmOk \in BOOLEAN :
       IF ~psOk
         THEN /\ trace' = trace \o Tag(<<Ev("wait", <<"timeout">>), Ev("lookup", <<>>),
                                        Ev("throw", <<"ps">>)>>, "timeout")
              /\ error' = "lookup"
              /\ containers' = containers
              /\ rmFailed' = rmFailed
         ELSE LET containerId == getContainerId(name)
                  rm == _removeContainer(containerId, FALSE, [force |-> TRUE], rmOk)
              IN  /\ trace' = trace \o Tag(<<Ev("wait", <<"timeout">>),
                                             Ev("lookup", Template(containerId))>> \o rm,
                                           "timeout")
                  /\ error' = IF Threw(rm) THEN "removal" ELSE "timeout"
                  /\ containers' = IF rmOk THEN dockerRm(Template(containerId))
                                           ELSE containers
                  /\ rmFailed' = IF rmOk THEN rmFailed ELSE rmFailed + 1
  /\ pc' = "thrown"
  /\ UNCHANGED <<call, sigintHandler, sigints, proc, exitDelivered, cmdLine, parsed>>

----------------------------------------------------------------------------
(* Specifications.                                                         *)

LifecycleRunOptions == {<<>>, <<Entry("name", Str(<<GivenName>>))>>}
LifecycleMappings ==
  {<<>>, <<Entry("/tmp/test", MapObj("/container/tmp/test", "rw"))>>,
   <<Entry("/tmp/test", MapNum)>>}

Launch ==
  \E callback \in BOOLEAN, exitOnEnd \in {True, False, Undefined},
     runOptions \in LifecycleRunOptions,
     mappings \in LifecycleMappings :
    runInContainerAsync(<<Str(<<"true">>)>>, callback, exitOnEnd, runOptions, mappings)

Next ==
  \/ Launch
  \/ ContainerCreated
  \/ ProcExit
  \/ DeliverExit
  \/ Sigint
  \/ WaitReturn
  \/ WaitTimeout

Spec == Init /\ [][Next]_vars

\* The argument builders applied to every input within the bounds.
ApplyParseRunOptions ==
  /\ pc = "idle"
  /\ \E runOptions \in RunOptionMaps : ParseRunOptions(runOptions)

ApplyRunInContainer ==
  /\ pc = "idle"
  /\ \E cmd \in Commands, runOptions \in RunOptionMaps, mappings \in MappingMaps :
       runInContainer(cmd, runOptions, mappings)

ApplyRunInContainerAsync ==
  /\ pc = "idle"
  /\ \E cmd \in Commands, runOptions \in RunOptionMaps, mappings \in MappingMaps :
       runInContainerAsync(cmd, TRUE, False, runOptions, mappings)

NextArgs ==
  \/ ApplyParseRunOptions
  \/ ApplyRunInContainer
  \/ ApplyRunInContainerAsync

SpecArgs == Init /\ [][NextArgs]_vars

----------------------------------------------------------------------------
(* Properties.                                                             *)

Count(e) == Cardinality({i \in DOMAIN trace : trace[i].ev = e})
Occurred(e, p) == \E i \in DOMAIN trace : trace[i].ev = e /\ trace[i].path = p
IsRm(i) == trace[i].ev = "exec" /\ trace[i].arg[1] = "rm"
Resolved(i) == trace[i].ev = "lookup" /\ trace[i].arg \notin {<<>>, Template(JsNull)}
\* j belongs to the handler run that made the lookup at i.
SameRun(i, j) == i < j /\ \A k \in (i + 1)..j : trace[k].ev # "lookup"

\* C1: with a callback supplied, onComplete is invoked at most once over
\* any sequence of exit reports and interrupt signals.
C1_OnCompleteAtMostOnce == call.callback => Count("onComplete") <= 1

\* C2: once the wait has failed with a timeout and that failure has reached
\* the caller, onComplete has not been invoked, then or later.
C2_NoOnCompleteOnTimeout == error = "timeout" => Count("onComplete") = 0

C4_ReturnedAfterOnComplete ==
  (pc = "returned" /\ call.fn = "runInContainerAsync" /\ call.callback)
    => Count("onComplete") >= 1

C4_Witness ==
  /\ pc = "returned" /\ call.fn = "runInContainerAsync" /\ call.callback
  /\ Occurred("onComplete", "exit")
  /\ ~Occurred("onComplete", "sigint")

\* C5: when the wait exceeds the timeout, the lookup and the removal attempt
\* are made and the failure that reaches the caller is the timeout failure.
C5_TimeoutFailureReachesCaller ==
  Occurred("wait", "timeout") =>
    /\ error = "timeout"
    /\ \E i, j \in DOMAIN trace :
         /\ trace[i].ev = "lookup" /\ trace[i].path = "timeout"
         /\ SameRun(i, j) /\ IsRm(j)

\* C6: after the timeout failure has been raised, a lookup of the assigned
\* container name returns absent, also when the runtime creates the
\* container only after the lookup made at the timeout (stated for the runs
\* in which no remove command failed).
C6_AbsentAfterTimeout ==
  (error = "timeout" /\ rmFailed = 0) => getContainerId(name) = JsNull

\* C7: when the lookup returned null, no remove command is executed.
C7_NoRemoveWhenAbsent ==
  \A j \in DOMAIN trace : IsRm(j) => trace[j].arg[Len(trace[j].arg)] # "null"

\* C8: a failing remove command is logged at error level, no exception
\* leaves the removal routine, and the continuation passed to it still runs.
C8_RemovalNeverPropagates ==
  /\ rmFailed = Count("logger.error")
  /\ error # "removal"
  /\ \A i \in DOMAIN trace :
       IsRm(i) =>
         /\ i + 1 <= Len(trace)
         /\ trace[i + 1].ev \in {"logger.debug", "logger.error"}
         /\ trace[i].path # "timeout" =>
              i + 2 <= Len(trace) /\ trace[i + 2].ev = "callback()"

C8_Witness ==
  /\ rmFailed >= 1
  /\ \E i \in DOMAIN trace :
       /\ IsRm(i) /\ trace[i].path # "timeout"
       /\ trace[i + 1].ev = "logger.error"
       /\ trace[i + 2].ev = "callback()"
  /\ \E i \in DOMAIN trace :
       IsRm(i) /\ trace[i].path = "timeout" /\ trace[i + 1].ev = "logger.error"

\* What the option map is said to generate: true, null and absent give
\* --key; a string gives --key value; false gives nothing.
RECURSIVE ExpectedOptionFlags(_)
ExpectedOptionFlags(runOptions) ==
  IF runOptions = <<>> THEN <<>>
  ELSE LET key == Head(runOptions).key
           value == Head(runOptions).value
       IN  (IF value \in {True, JsNull, Undefined} THEN <<Str(<<"--", key>>)>>
            ELSE IF value.t = "str" THEN <<Str(<<"--", key>>), value>>
            ELSE <<>>)
           \o ExpectedOptionFlags(Tail(runOptions))

\* C9: for every runOptions map, _parseRunOptions generates, per key in
\* order, --key for true, null or absent, --key value for a string, and
\* nothing for false.
C9_OptionFlags ==
  call.fn = "_parseRunOptions" => parsed = ExpectedOptionFlags(call.runOptions)

RECURSIVE ExpectedBindFlags(_)
ExpectedBindFlags(mappings) ==
  IF mappings = <<>> THEN <<>>
  ELSE LET m == Head(mappings)
       IN  <<Str(<<"-v">>),
             Str(<<m.key, ":", m.value.path>>
                   \o (IF m.value.mode # "" THEN <<":", m.value.mode>> ELSE <<>>))>>
           \o ExpectedBindFlags(Tail(mappings))

\* The run options as the call received them (for runInContainerAsync, with
\* the container name it assigns).
ReceivedRunOptions ==
  IF call.fn = "runInContainerAsync" THEN asyncRunOptions(call.runOptions)
                                     ELSE call.runOptions

\* C10: the command line of runInContainer and runInContainerAsync is `run`,
\* the volume-bind flags, the run-option flags (the caller's first, then
\* --interactive unless the caller set that key), the image, the command.
C10_CommandLineOrder ==
  (call.fn \in {"runInContainer", "runInContainerAsync"} /\ error # "mapping") =>
    cmdLine = join(<<Str(<<"run">>)>>
                   \o ExpectedBindFlags(call.mappings)
                   \o _parseRunOptions(ReceivedRunOptions)
                   \o (IF HasKey(ReceivedRunOptions, "interactive")
                         THEN <<>> ELSE <<Str(<<"--", "interactive">>)>>)
                   \o <<ImageId>>
                   \o call.cmd)

C10_Witness ==
  /\ call.fn = "runInContainerAsync"
  /\ error # "mapping"
  /\ Len(call.mappings) = 2
  /\ Len(call.runOptions) = 2
  /\ ~HasKey(call.runOptions, "interactive")
  /\ Len(call.cmd) = 2
  /\ cmdLine # <<>>

\* The result onExit is called with on each path.
ResultOf(p) == IF p = "sigint" THEN <<"127">> ELSE <<"exitCode">>

\* The events of the handler run that starts with the lookup at i.
RunOf(i) ==
  LET later == {k \in DOMAIN trace : k > i /\ trace[k].ev \in {"lookup", "wait"}}
      last == IF later = {} THEN Len(trace)
              ELSE (CHOOSE k \in later : \A m \in later : k <= m) - 1
  IN  SubSeq(trace, i, last)

Evs(events) == [k \in DOMAIN events |-> events[k].ev]

====
